---- MODULE Spec2Model ----
(***************************************************************************)
(* The adaptive Socratic dialogue controller of the tutoring application   *)
(* (src/src/components/LearningInterface.tsx), as a state machine.         *)
(*                                                                         *)
(* The controller is a React function component.  Its state is the set of  *)
(* useState cells; its operations are event handlers and the continuations *)
(* of their awaits and timers.  JavaScript runs each synchronous segment   *)
(* (from a click, a promise settlement or a timer expiry up to the next    *)
(* await) to completion, and React applies the state updates queued by a   *)
(* segment before the next one runs, so every action below is one such     *)
(* segment followed by the render that commits it.                         *)
(*                                                                         *)
(* A handler reads the state cells through the closure of the render in    *)
(* which it was created.  A continuation or a timer callback therefore     *)
(* sees the values of the moment its handler was invoked, never later      *)
(* ones: value setters (setX(v)) write a value computed from the closure,  *)
(* functional setters (setX(prev => ..)) read the committed state.  Each   *)
(* oracle call in flight and each timer carries that closure.              *)
(*                                                                         *)
(* Not modelled: the cells that only drive rendering (messages,            *)
(* difficultyChanged and its 1 s timer, the toasts, the scroll refs).      *)
(*                                                                         *)
(* The module also holds the progress figures of the backend: the thinking *)
(* score (calculateThinkingScore) and the statistics handlers              *)
(* (getOverallStats, getPDFProgress), as a process of its own with its own *)
(* specifications SpecScore and SpecStats.                                 *)
(***************************************************************************)
EXTENDS Integers, Sequences, FiniteSets, TLC

\* ------------------------------------------------------------------ bounds
\* A run is bounded by Bounds(turns, tasks, early): an answer is accepted while
\* the transcript has fewer than turns turns; the student starts something
\* while fewer than tasks calls are in flight or timers armed; at most early
\* answers are submitted during the delay before the next question.
Bounds(turns, tasks, early) == [turns |-> turns, tasks |-> tasks, early |-> early]

\* Spec: every handler, every oracle outcome, short sessions
MaxTurns == 5
MaxTasks == 2
MaxEarly == 1

\* --------------------------------------------------------- program constants
minChars == 20
IntroDelay == 500
AdvanceDelay == 2000
MaxDifficulty == 4
MinDifficulty == 1
WindowSize == 3
MaxAttempts == 3
\* variant: one hint too many is allowed
MaxHints_OneMore == 3 + 1
MaxHints == 3
QuestionsPerTopic == 3

QualityLevel == {"strong", "partial", "needs_work"}

\* texts the student can have in the textarea: chars non-blank characters
\* surrounded by spaces blanks
EmptyAnswer == [chars |-> 0, spaces |-> 0]
AnswerChoices ==
  { EmptyAnswer,
    [chars |-> 19, spaces |-> 2],
    [chars |-> 20, spaces |-> 0] }

Length(a) == a.chars + a.spaces
TrimLength(a) == a.chars

\* the topic lists the analysis step can hand to the component
TopicChoices == { <<>>, <<"A", "B">> }
NoTopic == "undefined"

\* ------------------------------------------------------------------- texts
\* A text is a pair <<producing call, serial>>; the empty string is EmptyText.
EmptyText == <<"", 0>>
IntroText == <<"intro", 0>>
ExplanationText == <<"explanation", 0>>
\* the feedback of an evaluation is about the question that was evaluated
FeedbackText(q) == <<"feedback", q[2]>>
AnswerText(a) == <<"answer", Length(a)>>

ConversationMessage(role, type, content) ==
  [role |-> role, type |-> type, content |-> content]

IsQuestion(m) == m.type = "question"

\* the oracle words every question differently
QuestionText(history) == <<"question", Len(SelectSeq(history, IsQuestion)) + 1>>

Min(a, b) == IF a < b THEN a ELSE b

\* index (0-based) of the focus topic for question number n
TopicIndex(n, tps) == Min((n - 1) \div QuestionsPerTopic, Len(tps) - 1)

FocusTopic(n, tps) ==
  IF Len(tps) = 0 THEN NoTopic ELSE tps[TopicIndex(n, tps) + 1]

\* ---------------------------------------------------------------- closures
\* The values a handler reads from its render; fields a handler never reads
\* hold their neutral value.
NoClosure ==
  [d |-> 0, qn |-> 0, att |-> 0, hints |-> 0, hist |-> <<>>,
   qtext |-> EmptyText, ans |-> EmptyAnswer]

NoAction == [action |-> "null", cl |-> NoClosure]

VARIABLES
  phase,                  \* "new" | "mounted" | "unmounted"
  pdfContent,             \* TRUE iff the navigation state carries content
  topics,
  currentQuestionText,
  currentQuestionNumber,
  currentAttempts,
  hintsUsed,
  conversationHistory,
  isLoading,
  showHintButton,
  currentDifficulty,
  recentQualities,
  userAnswer,
  error,
  exploredTopics,
  lastErrorAction,
  hasShownIntro,
  pending,                \* oracle calls in flight, each with its closure
  timers,                 \* armed setTimeout callbacks, in arming order
  last,                   \* the segment that ran last (history variable)
  early,                  \* answers submitted while a timer was armed (history)
  failed,                 \* the evaluation that has just failed (history)
  scoreArgs,              \* backend: the arguments of calculateThinkingScore
  thinkingScore,          \* backend: its result, in tenths of a point
  sessionsWithProgress,   \* backend: the persisted sessions with their progress
  stats                   \* backend: the statistics of the last response

session ==
  <<currentQuestionText, currentQuestionNumber, currentAttempts, hintsUsed,
    conversationHistory, currentDifficulty, recentQualities, exploredTopics>>

ui == <<isLoading, showHintButton, userAnswer, error, lastErrorAction, hasShownIntro>>

props == <<pdfContent, topics>>

\* the statistics service of the backend is a process of its own
backend == <<scoreArgs, thinkingScore, sessionsWithProgress, stats>>

component == <<phase, props, session, ui, pending, timers, last, early, failed>>

vars == <<component, backend>>

Live == phase = "mounted"

Step(op, quality) == [op |-> op, quality |-> quality]

\* failed remembers, from a failed evaluation until the student does anything
\* but retype and resubmit, what the session held when the evaluation failed
NoFailure == [is |-> FALSE, ans |-> EmptyAnswer, win |-> <<>>, att |-> 0]

TypeOK ==
  /\ phase \in {"new", "mounted", "unmounted"}
  /\ pdfContent \in BOOLEAN
  /\ topics \in TopicChoices
  /\ currentQuestionNumber \in Nat
  /\ currentAttempts \in Nat
  /\ hintsUsed \in Nat
  /\ isLoading \in BOOLEAN
  /\ showHintButton \in BOOLEAN
  /\ error \in BOOLEAN
  /\ hasShownIntro \in BOOLEAN
  /\ userAnswer \in AnswerChoices
  /\ \A i \in 1..Len(recentQualities) : recentQualities[i] \in QualityLevel

\* the component before its first render
ComponentNew ==
  /\ phase = "new"
  /\ pdfContent \in BOOLEAN
  /\ topics \in TopicChoices
  /\ currentQuestionText = EmptyText
  /\ currentQuestionNumber = 1
  /\ currentAttempts = 0
  /\ hintsUsed = 0
  /\ conversationHistory = <<>>
  /\ isLoading = FALSE
  /\ showHintButton = FALSE
  /\ currentDifficulty = 1
  /\ recentQualities = <<>>
  /\ userAnswer = EmptyAnswer
  /\ error = FALSE
  /\ exploredTopics = {}
  /\ lastErrorAction = NoAction
  /\ hasShownIntro = FALSE
  /\ pending = <<>>
  /\ timers = <<>>
  /\ last = Step("init", "none")
  /\ early = 0
  /\ failed = NoFailure

\* no score computed, no statistics requested, nothing persisted
NoArgs ==
  [correctAnswers |-> 0, hintsUsed |-> 0, hasTime |-> FALSE,
   timeSpentMinutes |-> 0, totalQuestions |-> 0]

NoScore == [done |-> FALSE, value |-> 0, divisors |-> {}]

NoStats ==
  [done |-> FALSE, handler |-> "none", pdfId |-> 0, averageThinkingScore |-> 0,
   overallAccuracy |-> 0, totalQuestionsAsked |-> 0, totalCorrectAnswers |-> 0]

BackendIdle ==
  /\ scoreArgs = NoArgs
  /\ thinkingScore = NoScore
  /\ sessionsWithProgress = <<>>
  /\ stats = NoStats

Init == ComponentNew /\ BackendIdle


\* ----------------------------------------------------------------- helpers
Remove(s, i) == SubSeq(s, 1, i - 1) \o SubSeq(s, i + 1, Len(s))

Call(name, c) == [call |-> name, cl |-> c]

Timer(delay, kind, c) == [delay |-> delay, kind |-> kind, cl |-> c]

\* what generateNextQuestion reads from its render
QuestionClosure(c) == [NoClosure EXCEPT !.d = c.d, !.qn = c.qn, !.hist = c.hist]

\* what the rest of handleSubmitAnswer reads once the evaluation is in
ExplanationClosure(c) == [c EXCEPT !.att = 0]

\* variant: the window keeps its first three labels and drops the new one
LastThree_KeepsOldest(qualities) ==
  IF Len(qualities) <= WindowSize THEN qualities
  ELSE SubSeq(qualities, 1, WindowSize)

\* recentQualities.slice(-3)
LastThree(qualities) ==
  IF Len(qualities) <= WindowSize THEN qualities
  ELSE SubSeq(qualities, Len(qualities) - WindowSize + 1, Len(qualities))

AllAre(qualities, q) == \A i \in 1..Len(qualities) : qualities[i] = q

\* variant: the escalation is not stopped at the ceiling
checkAndAdjustDifficulty_NoCeiling(qualities, d) ==
  IF Len(qualities) = WindowSize
  THEN IF AllAre(qualities, "strong") THEN 1
       ELSE IF AllAre(qualities, "needs_work") /\ d > MinDifficulty THEN -1
       ELSE 0
  ELSE 0

\* checkAndAdjustDifficulty, run with the difficulty d of the caller's render:
\* +1, -1 or 0 (no adjustment)
checkAndAdjustDifficulty(qualities, d) ==
  IF Len(qualities) = WindowSize
  THEN IF AllAre(qualities, "strong") /\ d < MaxDifficulty THEN 1
       ELSE IF AllAre(qualities, "needs_work") /\ d > MinDifficulty THEN -1
       ELSE 0
  ELSE 0

\* variant: the label is pushed twice
WindowAfter_PushesTwice(prev, quality, d) ==
  LET recentThree == LastThree(Append(Append(prev, quality), quality))
  IN IF checkAndAdjustDifficulty(recentThree, d) # 0 THEN <<>> ELSE recentThree

\* the setRecentQualities updater of handleSubmitAnswer: the window it leaves
\* once the render has committed (the nested setRecentQualities([]) is queued
\* behind the updater's own return value and wins)
WindowAfter(prev, quality, d) ==
  LET recentThree == LastThree(Append(prev, quality))
  IN IF checkAndAdjustDifficulty(recentThree, d) # 0 THEN <<>> ELSE recentThree

DifficultyAfter(prev, quality, d, current) ==
  LET recentThree == LastThree(Append(prev, quality))
  IN IF checkAndAdjustDifficulty(recentThree, d) # 0
     THEN d + checkAndAdjustDifficulty(recentThree, d)
     ELSE current

\* const newAttempts = currentAttempts + 1, from the render of the submission
newAttempts(c) == c.att + 1

\* variant: the advance skips a question number
NextQuestionNumber_Skips(prev) == prev + 2

\* setCurrentQuestionNumber((prev) => prev + 1)
NextQuestionNumber(prev) == prev + 1

\* setHintsUsed((prev) => prev + 1)
\* variant: a hint that consumes two slots of the allowance
newHints_Double(prev) == prev + 2

newHints(prev) == prev + 1

\* setTimeout callbacks run in order of expiry
TimerReady(i) == \A j \in 1..(i - 1) : timers[j].delay > timers[i].delay

CanStart(b) == Len(pending) + Len(timers) < b.tasks

\* ------------------------------------------------- generateNextQuestion
\* variant: the request does not mark its topic explored
generateNextQuestion_NoMark(c, rest) ==
  /\ pending' = Append(rest, Call("question", QuestionClosure(c)))
  /\ IF Live
     THEN /\ isLoading' = TRUE
          /\ error' = FALSE
          /\ lastErrorAction' = [action |-> "question", cl |-> QuestionClosure(c)]
          /\ exploredTopics' = exploredTopics
     ELSE UNCHANGED <<isLoading, error, lastErrorAction, exploredTopics>>

\* the synchronous part of generateNextQuestion, called from closure c, with
\* the calls in flight rest: everything up to the await
generateNextQuestion(c, rest) ==
  /\ pending' = Append(rest, Call("question", QuestionClosure(c)))
  /\ IF Live
     THEN /\ isLoading' = TRUE
          /\ error' = FALSE
          /\ lastErrorAction' = [action |-> "question", cl |-> QuestionClosure(c)]
          /\ exploredTopics' =
               IF Len(topics) > 0
               THEN exploredTopics \cup {topics[TopicIndex(c.qn, topics) + 1]}
               ELSE exploredTopics
     ELSE UNCHANGED <<isLoading, error, lastErrorAction, exploredTopics>>

QuestionResolve(i) ==
  /\ i \in 1..Len(pending)
  /\ pending[i].call = "question"
  /\ pending' = Remove(pending, i)
  /\ last' = Step("QuestionResolve", "none")
  /\ UNCHANGED backend
  /\ UNCHANGED early
  /\ failed' = NoFailure
  /\ IF Live
     THEN /\ currentQuestionText' = QuestionText(conversationHistory)
          /\ conversationHistory' =
               Append(conversationHistory,
                      ConversationMessage("assistant", "question",
                                          QuestionText(conversationHistory)))
          /\ lastErrorAction' = NoAction
          /\ isLoading' = FALSE
     ELSE UNCHANGED <<currentQuestionText, conversationHistory, lastErrorAction, isLoading>>
  /\ UNCHANGED <<phase, props, currentQuestionNumber, currentAttempts, hintsUsed,
                 currentDifficulty, recentQualities, exploredTopics,
                 showHintButton, userAnswer, error, hasShownIntro, timers>>

QuestionReject(i) ==
  /\ i \in 1..Len(pending)
  /\ pending[i].call = "question"
  /\ pending' = Remove(pending, i)
  /\ last' = Step("QuestionReject", "none")
  /\ UNCHANGED backend
  /\ UNCHANGED early
  /\ failed' = NoFailure
  /\ IF Live
     THEN error' = TRUE /\ isLoading' = FALSE
     ELSE UNCHANGED <<error, isLoading>>
  /\ UNCHANGED <<phase, props, session, showHintButton, userAnswer,
                 lastErrorAction, hasShownIntro, timers>>

\* ------------------------------------------------- showIntroExplanation
\* variant: the call leaves the error banner, and with it the Retry button, up
showIntroExplanation_KeepsError(c) ==
  /\ pending' = Append(pending, Call("intro", c))
  /\ isLoading' = TRUE
  /\ error' = error
  /\ lastErrorAction' = [action |-> "intro", cl |-> c]

\* the synchronous part of showIntroExplanation, called from closure c
showIntroExplanation(c) ==
  /\ pending' = Append(pending, Call("intro", c))
  /\ isLoading' = TRUE
  /\ error' = FALSE
  /\ lastErrorAction' = [action |-> "intro", cl |-> c]

\* the mount effect: the first render has the initial values of every cell
Mount ==
  /\ phase = "new"
  /\ phase' = "mounted"
  /\ last' = Step("Mount", "none")
  /\ UNCHANGED backend
  /\ UNCHANGED early
  /\ failed' = NoFailure
  /\ IF pdfContent /\ ~hasShownIntro
     THEN showIntroExplanation(
            [NoClosure EXCEPT !.d = currentDifficulty,
                              !.qn = currentQuestionNumber,
                              !.hist = conversationHistory])
     ELSE UNCHANGED <<pending, isLoading, error, lastErrorAction>>
  /\ UNCHANGED <<props, session, showHintButton, userAnswer, hasShownIntro, timers>>

IntroResolve(i) ==
  /\ i \in 1..Len(pending)
  /\ pending[i].call = "intro"
  /\ pending' = Remove(pending, i)
  /\ timers' = Append(timers, Timer(IntroDelay, "first", pending[i].cl))
  /\ last' = Step("IntroResolve", "none")
  /\ UNCHANGED backend
  /\ UNCHANGED early
  /\ failed' = NoFailure
  /\ IF Live
     THEN /\ conversationHistory' =
               Append(conversationHistory,
                      ConversationMessage("assistant", "explanation", IntroText))
          /\ hasShownIntro' = TRUE
          /\ lastErrorAction' = NoAction
     ELSE UNCHANGED <<conversationHistory, hasShownIntro, lastErrorAction>>
  /\ UNCHANGED <<phase, props, currentQuestionText, currentQuestionNumber,
                 currentAttempts, hintsUsed, currentDifficulty, recentQualities,
                 exploredTopics, isLoading, showHintButton, userAnswer, error>>

IntroReject(i) ==
  /\ i \in 1..Len(pending)
  /\ pending[i].call = "intro"
  /\ pending' = Remove(pending, i)
  /\ last' = Step("IntroReject", "none")
  /\ UNCHANGED backend
  /\ UNCHANGED early
  /\ failed' = NoFailure
  /\ IF Live
     THEN error' = TRUE /\ isLoading' = FALSE
     ELSE UNCHANGED <<error, isLoading>>
  /\ UNCHANGED <<phase, props, session, showHintButton, userAnswer,
                 lastErrorAction, hasShownIntro, timers>>

\* the Retry button: shown while error && lastErrorAction, never disabled
Retry(b) ==
  /\ Live
  /\ error
  /\ lastErrorAction # NoAction
  /\ CanStart(b)
  /\ last' = Step("Retry", "none")
  /\ UNCHANGED backend
  /\ UNCHANGED early
  /\ failed' = NoFailure
  /\ IF lastErrorAction.action = "intro"
     THEN showIntroExplanation(lastErrorAction.cl) /\ UNCHANGED exploredTopics
     ELSE generateNextQuestion(lastErrorAction.cl, pending)
  /\ UNCHANGED <<phase, props, currentQuestionText, currentQuestionNumber,
                 currentAttempts, hintsUsed, conversationHistory,
                 currentDifficulty, recentQualities, showHintButton,
                 userAnswer, hasShownIntro, timers>>

\* a setTimeout callback: the delayed first question, or the delayed advance
TimerFire(i) ==
  /\ i \in 1..Len(timers)
  /\ TimerReady(i)
  /\ timers' = Remove(timers, i)
  /\ last' = Step("TimerFire", "none")
  /\ UNCHANGED backend
  /\ UNCHANGED early
  /\ failed' = NoFailure
  /\ generateNextQuestion(timers[i].cl, pending)
  /\ IF Live /\ timers[i].kind = "advance"
     THEN /\ currentAttempts' = 0
          /\ hintsUsed' = 0
          /\ showHintButton' = FALSE
          /\ currentQuestionNumber' = NextQuestionNumber(currentQuestionNumber)
     ELSE UNCHANGED <<currentAttempts, hintsUsed, showHintButton, currentQuestionNumber>>
  /\ UNCHANGED <<phase, props, currentQuestionText, conversationHistory,
                 currentDifficulty, recentQualities, userAnswer, hasShownIntro>>


\* ------------------------------------------------------ handleAnswerChange
\* the textarea is disabled while isLoading
handleAnswerChange(a) ==
  /\ Live
  /\ ~isLoading
  /\ a \in AnswerChoices
  /\ a # userAnswer
  /\ userAnswer' = a
  /\ last' = Step("handleAnswerChange", "none")
  /\ UNCHANGED backend
  /\ UNCHANGED <<early, failed>>
  /\ UNCHANGED <<phase, props, session, isLoading, showHintButton, error,
                 lastErrorAction, hasShownIntro, pending, timers>>

\* ------------------------------------------------------ handleSubmitAnswer
\* the submit button is enabled iff canSubmit && !isLoading
canSubmit == Length(userAnswer) >= minChars /\ ~isLoading

\* variant: the length guard counts the blanks around the answer
SubmitAccepted_Untrimmed ==
  /\ ~(Length(userAnswer) < minChars)
  /\ ~(currentQuestionText = EmptyText \/ ~pdfContent)

\* variant: an answer is accepted while no question is on screen
SubmitAccepted_NoQuestion ==
  /\ ~(TrimLength(userAnswer) < minChars)
  /\ pdfContent

SubmitAccepted ==
  /\ ~(TrimLength(userAnswer) < minChars)
  /\ ~(currentQuestionText = EmptyText \/ ~pdfContent)

\* a click on the submit button: the handler up to await evaluateResponse
handleSubmitAnswer(b) ==
  /\ Live
  /\ canSubmit
  /\ CanStart(b)
  /\ Len(conversationHistory) < b.turns
  /\ Len(timers) > 0 => early < b.early
  /\ early' = IF Len(timers) > 0 /\ SubmitAccepted THEN early + 1 ELSE early
  /\ failed' = IF SubmitAccepted /\ failed.ans = userAnswer THEN failed ELSE NoFailure
  /\ last' = Step("handleSubmitAnswer", "none")
  /\ UNCHANGED backend
  /\ IF SubmitAccepted
     THEN /\ isLoading' = TRUE
          /\ error' = FALSE
          /\ conversationHistory' =
               Append(conversationHistory,
                      ConversationMessage("user", "answer", AnswerText(userAnswer)))
          /\ pending' =
               Append(pending,
                      Call("evaluate",
                           [NoClosure EXCEPT !.d = currentDifficulty,
                                             !.qn = currentQuestionNumber,
                                             !.att = currentAttempts,
                                             !.hist = conversationHistory,
                                             !.qtext = currentQuestionText,
                                             !.ans = userAnswer]))
     ELSE UNCHANGED <<isLoading, error, conversationHistory, pending>>
  /\ UNCHANGED <<phase, props, currentQuestionText, currentQuestionNumber,
                 currentAttempts, hintsUsed, currentDifficulty, recentQualities,
                 exploredTopics, showHintButton, userAnswer, lastErrorAction,
                 hasShownIntro, timers>>

\* evaluateResponse resolved with quality: the handler up to the next await
\* (strong) or to its end (otherwise)
EvaluateResolve(i, quality) ==
  /\ i \in 1..Len(pending)
  /\ pending[i].call = "evaluate"
  /\ quality \in QualityLevel
  /\ last' = Step("EvaluateResolve", quality)
  /\ UNCHANGED backend
  /\ UNCHANGED early
  /\ failed' = NoFailure
  /\ LET c == pending[i].cl
     IN /\ IF Live
           THEN /\ recentQualities' = WindowAfter(recentQualities, quality, c.d)
                /\ currentDifficulty' =
                     DifficultyAfter(recentQualities, quality, c.d, currentDifficulty)
           ELSE UNCHANGED <<recentQualities, currentDifficulty>>
        /\ IF quality = "strong"
           THEN /\ pending' =
                     Append(Remove(pending, i),
                            Call("explanation", ExplanationClosure(c)))
                /\ UNCHANGED <<conversationHistory, currentAttempts,
                               showHintButton, isLoading, userAnswer, timers>>
           ELSE /\ pending' = Remove(pending, i)
                /\ timers' =
                     IF newAttempts(c) >= MaxAttempts
                     THEN Append(timers, Timer(AdvanceDelay, "advance", QuestionClosure(c)))
                     ELSE timers
                /\ IF Live
                   THEN /\ conversationHistory' =
                             Append(conversationHistory,
                                    ConversationMessage("assistant", "explanation",
                                                        FeedbackText(c.qtext)))
                        /\ currentAttempts' = newAttempts(c)
                        /\ showHintButton' = TRUE
                        /\ isLoading' = FALSE
                        /\ userAnswer' = EmptyAnswer
                   ELSE UNCHANGED <<conversationHistory, currentAttempts,
                                    showHintButton, isLoading, userAnswer>>
  /\ UNCHANGED <<phase, props, currentQuestionText, currentQuestionNumber,
                 hintsUsed, exploredTopics, error, lastErrorAction, hasShownIntro>>

\* catch and finally of handleSubmitAnswer
SubmitCatch ==
  /\ IF Live
     THEN error' = TRUE /\ isLoading' = FALSE /\ userAnswer' = EmptyAnswer
     ELSE UNCHANGED <<error, isLoading, userAnswer>>
  /\ UNCHANGED <<phase, props, session, showHintButton, lastErrorAction,
                 hasShownIntro, timers>>

EvaluateReject(i) ==
  /\ i \in 1..Len(pending)
  /\ pending[i].call = "evaluate"
  /\ pending' = Remove(pending, i)
  /\ last' = Step("EvaluateReject", "none")
  /\ UNCHANGED backend
  /\ UNCHANGED early
  /\ failed' = IF Live
                THEN [is |-> TRUE, ans |-> pending[i].cl.ans,
                      win |-> recentQualities, att |-> currentAttempts]
                ELSE NoFailure
  /\ SubmitCatch

ExplanationResolve(i) ==
  /\ i \in 1..Len(pending)
  /\ pending[i].call = "explanation"
  /\ pending' = Remove(pending, i)
  /\ timers' = Append(timers, Timer(AdvanceDelay, "advance", QuestionClosure(pending[i].cl)))
  /\ last' = Step("ExplanationResolve", "none")
  /\ UNCHANGED backend
  /\ UNCHANGED early
  /\ failed' = NoFailure
  /\ IF Live
     THEN /\ conversationHistory' =
               Append(conversationHistory,
                      ConversationMessage("assistant", "explanation", ExplanationText))
          /\ isLoading' = FALSE
          /\ userAnswer' = EmptyAnswer
     ELSE UNCHANGED <<conversationHistory, isLoading, userAnswer>>
  /\ UNCHANGED <<phase, props, currentQuestionText, currentQuestionNumber,
                 currentAttempts, hintsUsed, currentDifficulty, recentQualities,
                 exploredTopics, showHintButton, error, lastErrorAction,
                 hasShownIntro>>

ExplanationReject(i) ==
  /\ i \in 1..Len(pending)
  /\ pending[i].call = "explanation"
  /\ pending' = Remove(pending, i)
  /\ last' = Step("ExplanationReject", "none")
  /\ UNCHANGED backend
  /\ UNCHANGED early
  /\ failed' = NoFailure
  /\ SubmitCatch

\* ----------------------------------------------------------- handleGetHint
\* the hint button is rendered iff showHintButton && hintsUsed < 3 and is
\* disabled while isLoading
handleGetHint(b) ==
  /\ Live
  /\ showHintButton /\ hintsUsed < MaxHints /\ ~isLoading
  /\ CanStart(b)
  /\ last' = Step("handleGetHint", "none")
  /\ UNCHANGED backend
  /\ UNCHANGED early
  /\ failed' = NoFailure
  /\ IF hintsUsed >= MaxHints \/ currentQuestionText = EmptyText \/ ~pdfContent
     THEN UNCHANGED <<isLoading, error, pending>>
     ELSE /\ isLoading' = TRUE
          /\ error' = FALSE
          /\ pending' =
               Append(pending,
                      Call("hint",
                           [NoClosure EXCEPT !.d = currentDifficulty,
                                             !.hints = hintsUsed,
                                             !.qtext = currentQuestionText,
                                             !.ans = userAnswer]))
  /\ UNCHANGED <<phase, props, session, showHintButton, userAnswer,
                 lastErrorAction, hasShownIntro, timers>>

HintResolve(i) ==
  /\ i \in 1..Len(pending)
  /\ pending[i].call = "hint"
  /\ pending' = Remove(pending, i)
  /\ last' = Step("HintResolve", "none")
  /\ UNCHANGED backend
  /\ UNCHANGED early
  /\ failed' = NoFailure
  /\ IF Live
     THEN /\ hintsUsed' = newHints(hintsUsed)
          /\ showHintButton' = IF newHints(hintsUsed) >= MaxHints THEN FALSE ELSE showHintButton
          /\ isLoading' = FALSE
     ELSE UNCHANGED <<hintsUsed, showHintButton, isLoading>>
  /\ UNCHANGED <<phase, props, currentQuestionText, currentQuestionNumber,
                 currentAttempts, conversationHistory, currentDifficulty,
                 recentQualities, exploredTopics, userAnswer, error,
                 lastErrorAction, hasShownIntro, timers>>

HintReject(i) ==
  /\ i \in 1..Len(pending)
  /\ pending[i].call = "hint"
  /\ pending' = Remove(pending, i)
  /\ last' = Step("HintReject", "none")
  /\ UNCHANGED backend
  /\ UNCHANGED early
  /\ failed' = NoFailure
  /\ IF Live
     THEN error' = TRUE /\ isLoading' = FALSE
     ELSE UNCHANGED <<error, isLoading>>
  /\ UNCHANGED <<phase, props, session, showHintButton, userAnswer,
                 lastErrorAction, hasShownIntro, timers>>

\* -------------------------------------------------------- handleNewSession
\* variant: the reset forgets to empty the explored topics
handleNewSession_KeepsTopics ==
  /\ Live
  /\ phase' = "unmounted"
  /\ last' = Step("handleNewSession", "none")
  /\ UNCHANGED backend
  /\ UNCHANGED early
  /\ failed' = NoFailure
  /\ conversationHistory' = <<>>
  /\ currentQuestionNumber' = 1
  /\ currentQuestionText' = EmptyText
  /\ currentAttempts' = 0
  /\ hintsUsed' = 0
  /\ showHintButton' = FALSE
  /\ currentDifficulty' = 1
  /\ recentQualities' = <<>>
  /\ userAnswer' = EmptyAnswer
  /\ error' = FALSE
  /\ UNCHANGED <<props, exploredTopics, isLoading, lastErrorAction, hasShownIntro, pending, timers>>

\* the student confirms; the component resets its cells and navigates away,
\* which unmounts it.  Calls in flight and timers are not cancelled.
handleNewSession ==
  /\ Live
  /\ phase' = "unmounted"
  /\ last' = Step("handleNewSession", "none")
  /\ UNCHANGED backend
  /\ UNCHANGED early
  /\ failed' = NoFailure
  /\ conversationHistory' = <<>>
  /\ currentQuestionNumber' = 1
  /\ currentQuestionText' = EmptyText
  /\ currentAttempts' = 0
  /\ hintsUsed' = 0
  /\ showHintButton' = FALSE
  /\ currentDifficulty' = 1
  /\ recentQualities' = <<>>
  /\ userAnswer' = EmptyAnswer
  /\ error' = FALSE
  /\ exploredTopics' = {}
  /\ UNCHANGED <<props, isLoading, lastErrorAction, hasShownIntro, pending, timers>>

\* ------------------------------------------------------------------- system
Next ==
  \/ Mount
  \/ \E a \in AnswerChoices : handleAnswerChange(a)
  \/ handleSubmitAnswer(Bounds(MaxTurns, MaxTasks, MaxEarly))
  \/ handleGetHint(Bounds(MaxTurns, MaxTasks, MaxEarly))
  \/ handleNewSession
  \/ Retry(Bounds(MaxTurns, MaxTasks, MaxEarly))
  \/ \E i \in 1..Len(timers) : TimerFire(i)
  \/ \E i \in 1..Len(pending) : IntroResolve(i)
  \/ \E i \in 1..Len(pending) : IntroReject(i)
  \/ \E i \in 1..Len(pending) : QuestionResolve(i)
  \/ \E i \in 1..Len(pending) : QuestionReject(i)
  \/ \E i \in 1..Len(pending), quality \in QualityLevel : EvaluateResolve(i, quality)
  \/ \E i \in 1..Len(pending) : EvaluateReject(i)
  \/ \E i \in 1..Len(pending) : ExplanationResolve(i)
  \/ \E i \in 1..Len(pending) : ExplanationReject(i)
  \/ \E i \in 1..Len(pending) : HintResolve(i)
  \/ \E i \in 1..Len(pending) : HintReject(i)

Spec == Init /\ [][Next]_vars

\* ------------------------------------------------------------ long sessions
\* The student answers, the oracle always replies: no failure, hint or reset.
\* SpecStreak serialises every answer (none during a delay) and runs long
\* enough to take the difficulty to its ceiling; SpecWindow and SpecRace let
\* the student answer once during the delay after a completed question, the
\* first for long enough to slide the window, the second to fill it twice.
StreakTurns == 36
WindowTurns == 12
RaceTurns == 16
RaceTasks == 2
RaceEarly == 1
LongRaceTurns == 26

OkAnswer == [chars |-> 20, spaces |-> 0]

InitLong == Init /\ pdfContent /\ topics = <<"A", "B">>

NextLong(b, labels) ==
  \/ Mount
  \/ handleAnswerChange(OkAnswer)
  \/ handleSubmitAnswer(b)
  \/ \E i \in 1..Len(timers) : TimerFire(i)
  \/ \E i \in 1..Len(pending) : IntroResolve(i)
  \/ \E i \in 1..Len(pending) : QuestionResolve(i)
  \/ \E i \in 1..Len(pending), quality \in labels : EvaluateResolve(i, quality)
  \/ \E i \in 1..Len(pending) : ExplanationResolve(i)

NextStreak == NextLong(Bounds(StreakTurns, 1, 0), QualityLevel)

SpecStreak == InitLong /\ [][NextStreak]_vars

NextWindow == NextLong(Bounds(WindowTurns, RaceTasks, RaceEarly), QualityLevel)

SpecWindow == InitLong /\ [][NextWindow]_vars

NextRace == NextLong(Bounds(RaceTurns, RaceTasks, RaceEarly), QualityLevel)

SpecRace == InitLong /\ [][NextRace]_vars

\* the same race later in a session: the student answers during a delay only
\* once the difficulty has been raised, and the oracle grades every answer
\* strong until then, strong or needs_work afterwards
LongRaceLabels == IF early = 0 THEN {"strong"} ELSE {"strong", "needs_work"}

LongRaceEarly == IF currentDifficulty > MinDifficulty THEN RaceEarly ELSE 0

NextLongRace == NextLong(Bounds(LongRaceTurns, RaceTasks, LongRaceEarly), LongRaceLabels)

SpecLongRace == InitLong /\ [][NextLongRace]_vars


\* ============================================================ progress score
\* calculateThinkingScore.  Scores are numbers with one decimal; the model
\* holds them in tenths of a point (64.0 is 640).  The arguments are
\* integers; an absent timeSpentMinutes is hasTime = FALSE.
MaxCorrect == 8
MaxQuestions == 10
MaxMinutes == 25
MaxScoreHints == 11
ManyHints == 1000

Max(a, b) == IF a > b THEN a ELSE b

\* Math.round(n / d) for d > 0: the nearest integer, a half goes up
RoundDiv(n, d) == (2 * n + d) \div (2 * d)

\* variant: the penalty is not capped
hintsPenalty_Uncapped(hints) == hints * 2

hintsPenalty(hints) == Min(hints * 2, 20)

\* avgTimePerQuestion = minutes / questions is compared without dividing
timeBonus(hasTime, minutes, questions) ==
  IF hasTime /\ minutes # 0 /\ minutes > 0 /\ questions > 0
  THEN IF minutes >= 2 * questions /\ minutes <= 5 * questions THEN 20
       ELSE IF minutes < 2 * questions THEN 10
       ELSE IF minutes <= 10 * questions THEN 15
       ELSE 5
  ELSE 10

\* the result in tenths: ten times the score is num / den before rounding
calculateThinkingScore(correct, hints, hasTime, minutes, questions) ==
  LET den == IF questions > 0 THEN questions ELSE 1
      correctnessScore == IF questions > 0 THEN 600 * correct ELSE 0
      num == correctnessScore
               + 10 * (timeBonus(hasTime, minutes, questions) - hintsPenalty(hints)) * den
      score == Max(0, Min(1000 * den, num))
  IN  RoundDiv(score, den)

\* variant: the correctness ratio is taken whenever there are no fewer than
\* zero questions
ScoreDivisors_FromZero(hasTime, minutes, questions) ==
  (IF questions >= 0 THEN {questions} ELSE {})
  \cup (IF hasTime /\ minutes # 0 /\ minutes > 0 /\ questions > 0
        THEN {questions} ELSE {})

\* the divisors of the two divisions the function evaluates: the one of the
\* correctness ratio and the one of the average time per question
ScoreDivisors(hasTime, minutes, questions) ==
  (IF questions > 0 THEN {questions} ELSE {})
  \cup (IF hasTime /\ minutes # 0 /\ minutes > 0 /\ questions > 0
        THEN {questions} ELSE {})

ScoreArgChoices ==
  [correctAnswers : (-1)..MaxCorrect,
   hintsUsed : ((-1)..MaxScoreHints) \cup {ManyHints},
   hasTime : {TRUE},
   timeSpentMinutes : (-1)..MaxMinutes,
   totalQuestions : (-1)..MaxQuestions]
  \cup
  [correctAnswers : (-1)..MaxCorrect,
   hintsUsed : ((-1)..MaxScoreHints) \cup {ManyHints},
   hasTime : {FALSE},
   timeSpentMinutes : {0},
   totalQuestions : (-1)..MaxQuestions]

InitScore ==
  /\ ComponentNew /\ ~pdfContent /\ topics = <<>>
  /\ scoreArgs \in ScoreArgChoices
  /\ thinkingScore = NoScore
  /\ sessionsWithProgress = <<>>
  /\ stats = NoStats

ComputeScore ==
  /\ ~thinkingScore.done
  /\ thinkingScore' =
       [done |-> TRUE,
        value |-> calculateThinkingScore(scoreArgs.correctAnswers,
                                         scoreArgs.hintsUsed,
                                         scoreArgs.hasTime,
                                         scoreArgs.timeSpentMinutes,
                                         scoreArgs.totalQuestions),
        divisors |-> ScoreDivisors(scoreArgs.hasTime,
                                   scoreArgs.timeSpentMinutes,
                                   scoreArgs.totalQuestions)]
  /\ UNCHANGED <<component, scoreArgs, sessionsWithProgress, stats>>

NextScore == ComputeScore

SpecScore == InitScore /\ [][NextScore]_vars


\* ======================================================= progress statistics
\* getOverallStats and getPDFProgress for one authenticated user.  A persisted
\* session is a row with the PDF it belongs to, whether it has a progress
\* record, the three counters of that record and the minutes between
\* createdAt and updatedAt.  Both handlers only read.
MaxSessions == 3

PdfIds == {1, 2}

NoProgressRows ==
  [pdfId : PdfIds, hasProgress : {FALSE}, questionsAsked : {0},
   correctAnswers : {0}, hintsUsed : {0}, minutes : {7}]

ProgressRows ==
  [pdfId : PdfIds, hasProgress : {TRUE}, questionsAsked : {0, 3},
   correctAnswers : {1, 2}, hintsUsed : {0, 1}, minutes : {7}]

SessionChoices == NoProgressRows \cup ProgressRows

NoTotals ==
  [totalThinkingScore |-> 0, sessionsWithScore |-> 0,
   totalCorrectAnswers |-> 0, totalQuestionsAsked |-> 0]

\* the score of one session, computed when it has asked a question
SessionScore(row) ==
  calculateThinkingScore(row.correctAnswers, row.hintsUsed, TRUE,
                         row.minutes, row.questionsAsked)

\* variant: a session that asked no question counts as one with a score
AddSession_CountsEmpty(acc, row) ==
  [totalThinkingScore |->
     acc.totalThinkingScore
       + (IF row.questionsAsked > 0 THEN SessionScore(row) ELSE 0),
   sessionsWithScore |-> acc.sessionsWithScore + 1,
   totalCorrectAnswers |-> acc.totalCorrectAnswers + row.correctAnswers,
   totalQuestionsAsked |-> acc.totalQuestionsAsked + row.questionsAsked]

\* the running totals after one session
AddSession(acc, row) ==
  [totalThinkingScore |->
     acc.totalThinkingScore
       + (IF row.questionsAsked > 0 THEN SessionScore(row) ELSE 0),
   sessionsWithScore |->
     acc.sessionsWithScore + (IF row.questionsAsked > 0 THEN 1 ELSE 0),
   totalCorrectAnswers |-> acc.totalCorrectAnswers + row.correctAnswers,
   totalQuestionsAsked |-> acc.totalQuestionsAsked + row.questionsAsked]

\* getOverallStats: sessions without a progress record are skipped
RECURSIVE OverallTotals(_, _)
OverallTotals(rows, acc) ==
  IF rows = <<>> THEN acc
  ELSE OverallTotals(Tail(rows),
                     IF Head(rows).hasProgress
                     THEN AddSession(acc, Head(rows))
                     ELSE acc)

\* getPDFProgress: a missing progress record reads as three zeros
ProgressOrZero(row) ==
  IF row.hasProgress THEN row
  ELSE [row EXCEPT !.questionsAsked = 0, !.correctAnswers = 0, !.hintsUsed = 0]

RECURSIVE PdfTotals(_, _)
PdfTotals(rows, acc) ==
  IF rows = <<>> THEN acc
  ELSE PdfTotals(Tail(rows), AddSession(acc, ProgressOrZero(Head(rows))))

\* the figures of the response, in tenths
Response(handler, pdfId, t) ==
  [done |-> TRUE,
   handler |-> handler,
   pdfId |-> pdfId,
   averageThinkingScore |->
     IF t.sessionsWithScore > 0
     THEN RoundDiv(t.totalThinkingScore, t.sessionsWithScore)
     ELSE 0,
   overallAccuracy |->
     IF t.totalQuestionsAsked > 0
     THEN RoundDiv(1000 * t.totalCorrectAnswers, t.totalQuestionsAsked)
     ELSE 0,
   totalQuestionsAsked |-> t.totalQuestionsAsked,
   totalCorrectAnswers |-> t.totalCorrectAnswers]

OfPdf(rows, pdfId) ==
  LET Belongs(row) == row.pdfId = pdfId IN SelectSeq(rows, Belongs)

getOverallStats ==
  /\ ~stats.done
  /\ stats' = Response("getOverallStats", 0, OverallTotals(sessionsWithProgress, NoTotals))
  /\ UNCHANGED <<component, scoreArgs, thinkingScore, sessionsWithProgress>>

getPDFProgress(pdfId) ==
  /\ ~stats.done
  /\ stats' = Response("getPDFProgress", pdfId,
                       PdfTotals(OfPdf(sessionsWithProgress, pdfId), NoTotals))
  /\ UNCHANGED <<component, scoreArgs, thinkingScore, sessionsWithProgress>>

InitStats ==
  /\ ComponentNew /\ ~pdfContent /\ topics = <<>>
  /\ scoreArgs = NoArgs
  /\ thinkingScore = NoScore
  /\ sessionsWithProgress \in UNION {[1..n -> SessionChoices] : n \in 0..MaxSessions}
  /\ stats = NoStats

NextStats ==
  \/ getOverallStats
  \/ \E pdfId \in PdfIds : getPDFProgress(pdfId)

SpecStats == InitStats /\ [][NextStats]_vars


\* ===================================================================== claims
\* the window a successful evaluation with label quality makes, before the
\* difficulty policy looks at it
WindowMade(quality) == LastThree(Append(recentQualities, quality))

\* the step is the continuation of a successful evaluation in the session on
\* screen
Evaluated == phase = "mounted" /\ last'.op = "EvaluateResolve"

\* C1: in every reachable state difficulty is an integer in [1,4]
C1_DifficultyInRange == currentDifficulty \in MinDifficulty..MaxDifficulty

\* C1 witness: three strong answers in a row were evaluated at the ceiling
C1_Witness ==
  /\ currentDifficulty = MaxDifficulty
  /\ last = Step("EvaluateResolve", "strong")
  /\ recentQualities = <<"strong", "strong", "strong">>

\* C2: a step that changes difficulty is the reset to 1 or the continuation
\* of a successful evaluation, and then it changes it by exactly +1 or -1
C2_OnlyPolicyByOne ==
  [][currentDifficulty' # currentDifficulty =>
       \/ last'.op = "handleNewSession" /\ currentDifficulty' = 1
       \/ /\ last'.op = "EvaluateResolve"
          /\ \/ currentDifficulty' = currentDifficulty + 1
             \/ currentDifficulty' = currentDifficulty - 1]_vars

\* C3: an evaluation that makes the window three strong below the ceiling
\* raises difficulty by one and empties the window; three needs_work above
\* the floor lower it by one and empty the window
C3_AdjustAndClear ==
  [][Evaluated =>
       /\ (AllAre(WindowMade(last'.quality), "strong")
           /\ Len(WindowMade(last'.quality)) = WindowSize
           /\ currentDifficulty < MaxDifficulty)
          => (currentDifficulty' = currentDifficulty + 1 /\ recentQualities' = <<>>)
       /\ (AllAre(WindowMade(last'.quality), "needs_work")
           /\ Len(WindowMade(last'.quality)) = WindowSize
           /\ currentDifficulty > MinDifficulty)
          => (currentDifficulty' = currentDifficulty - 1 /\ recentQualities' = <<>>)]_vars

\* C4: a full window that is mixed, or all strong at the ceiling, or all
\* needs_work at the floor, leaves difficulty alone and stays in place
C4_HoldAndRetain ==
  [][(/\ Evaluated
      /\ Len(WindowMade(last'.quality)) = WindowSize
      /\ \/ /\ ~AllAre(WindowMade(last'.quality), "strong")
            /\ ~AllAre(WindowMade(last'.quality), "needs_work")
         \/ /\ AllAre(WindowMade(last'.quality), "strong")
            /\ currentDifficulty = MaxDifficulty
         \/ /\ AllAre(WindowMade(last'.quality), "needs_work")
            /\ currentDifficulty = MinDifficulty)
     => /\ currentDifficulty' = currentDifficulty
        /\ recentQualities' = WindowMade(last'.quality)]_vars


\* after has exactly one label more than before, q, pushed at the end, with
\* the oldest evicted beyond the capacity
OneMore(before, after, q) ==
  /\ Len(after) = Min(WindowSize, Len(before) + 1)
  /\ after[Len(after)] = q
  /\ \A k \in 1..(Len(after) - 1) :
       after[k] = before[Len(before) - (Len(after) - 1) + k]

Unanimous(w) ==
  Len(w) = WindowSize /\ (AllAre(w, "strong") \/ AllAre(w, "needs_work"))

\* C5: the window never holds more than 3 labels; only an evaluation or the
\* reset changes it; an evaluation that does not adjust pushes its label at
\* the end and evicts the oldest beyond 3 (so the window is the last
\* min(3, n) labels since it was emptied), and one that empties it had made
\* it unanimous
C5_SlidingWindow ==
  /\ [](Len(recentQualities) <= WindowSize)
  /\ [][recentQualities' # recentQualities =>
          last'.op \in {"EvaluateResolve", "handleNewSession"}]_vars
  /\ [][Evaluated =>
          IF recentQualities' = <<>>
          THEN Unanimous(WindowMade(last'.quality))
          ELSE OneMore(recentQualities, recentQualities', last'.quality)]_vars

IsVerdict(m) == m.content[1] \in {"feedback", "explanation"}

\* C5 witness: a fourth label was pushed into a window never emptied, and
\* evicted the first
C5_Witness ==
  /\ last = Step("EvaluateResolve", "partial")
  /\ Len(recentQualities) = WindowSize
  /\ currentDifficulty = MinDifficulty
  /\ Len(SelectSeq(conversationHistory, IsVerdict)) = WindowSize + 1

\* C6: a click on submit with fewer than 20 characters after trimming, or
\* with no question pending, issues no oracle call and changes nothing of
\* the session
C6_SubmitNoOp ==
  [][(/\ last'.op = "handleSubmitAnswer"
      /\ \/ TrimLength(userAnswer) < minChars
         \/ currentQuestionText = EmptyText)
     => /\ pending' = pending
        /\ UNCHANGED <<conversationHistory, currentAttempts, hintsUsed,
                       recentQualities, currentDifficulty,
                       currentQuestionNumber, currentQuestionText>>]_vars

\* C6 witness: the student clicked submit on 19 characters padded with
\* blanks while a question was pending
C6_Witness ==
  /\ last.op = "handleSubmitAnswer"
  /\ TrimLength(userAnswer) < minChars
  /\ currentQuestionText # EmptyText
  /\ pending = <<>>

\* the evaluation call number i is the one that failed in this step
Rejected(i) ==
  /\ i \in 1..Len(pending)
  /\ pending[i].call = "evaluate"
  /\ pending' = Remove(pending, i)

\* C7: when the evaluation of a submitted answer fails, the transcript is
\* left as it is with the answer turn in the place it was appended at, the
\* failure itself changes neither window nor hint count, and attempts,
\* difficulty and question number are those of the render in which the
\* answer was submitted
C7_FailedEvaluation ==
  [][(last'.op = "EvaluateReject" /\ phase = "mounted") =>
       /\ UNCHANGED <<conversationHistory, recentQualities, hintsUsed>>
       /\ \A i \in 1..Len(pending) :
            Rejected(i) =>
              LET c == pending[i].cl
              IN /\ Len(conversationHistory') > Len(c.hist)
                 /\ conversationHistory'[Len(c.hist) + 1] =
                      ConversationMessage("user", "answer", AnswerText(c.ans))
                 /\ currentAttempts' = c.att
                 /\ currentDifficulty' = c.d
                 /\ currentQuestionNumber' = c.qn]_vars

\* the step resolves the evaluation of the answer submitted in the step
\* before it
LatestResolved ==
  /\ last.op = "handleSubmitAnswer"
  /\ Len(pending) > 0
  /\ pending[Len(pending)].call = "evaluate"
  /\ \/ pending' = Remove(pending, Len(pending))
     \/ /\ Len(pending') = Len(pending)
        /\ SubSeq(pending', 1, Len(pending) - 1) = SubSeq(pending, 1, Len(pending) - 1)
        /\ pending'[Len(pending')].call = "explanation"

\* C8: when an evaluation has failed and the student resubmits the same
\* answer, the successful evaluation leaves the window with exactly one
\* label more than at the failure (or empty, that label having made it
\* unanimous) and the attempts one higher than at the failure if the label
\* is not strong, unchanged if it is
C8_RetryCountsOnce ==
  [][(Evaluated /\ failed.is /\ LatestResolved) =>
       /\ IF recentQualities' = <<>>
          THEN Unanimous(WindowMade(last'.quality))
          ELSE OneMore(failed.win, recentQualities', last'.quality)
       /\ currentAttempts' =
            IF last'.quality = "strong" THEN failed.att ELSE failed.att + 1]_vars

\* C8 witness: the retry of a failed evaluation was graded partial, the
\* first label and the first attempt
C8_Witness ==
  /\ last = Step("EvaluateResolve", "partial")
  /\ phase = "mounted"
  /\ recentQualities = <<"partial">>
  /\ currentAttempts = 1
  /\ Len(conversationHistory) >= 3
  /\ conversationHistory[Len(conversationHistory) - 1].type = "answer"
  /\ conversationHistory[Len(conversationHistory) - 2].type = "answer"

Count(calls, name) == Cardinality({i \in 1..Len(calls) : calls[i].call = name})

\* the timer of kind k is the one that fired in this step
Fired(k) ==
  \E i \in 1..Len(timers) : timers' = Remove(timers, i) /\ timers[i].kind = k

IsExplanationTurn(m) == m.role = "assistant" /\ m.type = "explanation"

\* the delayed advance: counters to 0, question number up by one, one
\* question requested
Advances ==
  /\ currentAttempts' = 0
  /\ hintsUsed' = 0
  /\ currentQuestionNumber' = currentQuestionNumber + 1
  /\ Count(pending', "question") = Count(pending, "question") + 1

\* C9: a strong evaluation requests one explanation; its arrival appends it
\* as an assistant explanation turn and arms the advance; the advance
\* resets both counters, adds one to the question number and requests one
\* question; and the question that arrives is appended after an explanation
\* turn that followed the answer
C9_StrongAnswer ==
  /\ [][(last'.op = "EvaluateResolve" /\ last'.quality = "strong") =>
          /\ Count(pending', "explanation") = Count(pending, "explanation") + 1
          /\ UNCHANGED <<conversationHistory, currentAttempts, hintsUsed,
                         currentQuestionNumber, timers>>]_vars
  /\ [][(last'.op = "ExplanationResolve" /\ phase = "mounted") =>
          /\ conversationHistory' =
               Append(conversationHistory,
                      ConversationMessage("assistant", "explanation", ExplanationText))
          /\ Len(timers') = Len(timers) + 1
          /\ timers'[Len(timers')].kind = "advance"
          /\ UNCHANGED <<currentAttempts, hintsUsed, currentQuestionNumber>>]_vars
  /\ [][(last'.op = "TimerFire" /\ phase = "mounted" /\ Fired("advance")) =>
          Advances]_vars
  /\ [][(last'.op = "QuestionResolve" /\ phase = "mounted") =>
          /\ Len(conversationHistory') = Len(conversationHistory) + 1
          /\ conversationHistory'[Len(conversationHistory')].type = "question"
          /\ SubSeq(conversationHistory', 1, Len(conversationHistory)) = conversationHistory
          /\ \A i \in 1..Len(pending) :
               (pending[i].call = "question" /\ pending' = Remove(pending, i)) =>
                  \E k \in (Len(pending[i].cl.hist) + 1)..Len(conversationHistory) :
                     IsExplanationTurn(conversationHistory[k])]_vars

\* C9 witness: the second question has arrived right after the explanation
\* of a strong answer to the first
C9_Witness ==
  /\ last.op = "QuestionResolve"
  /\ phase = "mounted"
  /\ currentQuestionNumber = 2
  /\ currentAttempts = 0
  /\ hintsUsed = 0
  /\ Len(conversationHistory) = 5
  /\ conversationHistory[3].type = "answer"
  /\ conversationHistory[4].content = ExplanationText
  /\ conversationHistory[5].type = "question"

\* the evaluations of answers to question q that were not strong
Graded(history, q) ==
  Cardinality({k \in 1..Len(history) : history[k].content = FeedbackText(q)})

\* C10: every evaluation that is not strong appends its feedback turn and
\* requests no explanation and leaves the question in place; when it is of
\* an answer to the pending question the attempt count becomes the number
\* of such evaluations on that question, and the advance is armed exactly
\* from the third on; the advance resets both counters and adds one to the
\* question number
C10_ThreeAttempts ==
  /\ [][(Evaluated /\ last'.quality # "strong") =>
          \A i \in 1..Len(pending) :
            (pending[i].call = "evaluate" /\ pending' = Remove(pending, i)) =>
              LET q == pending[i].cl.qtext
                  n == Graded(conversationHistory', q)
              IN /\ conversationHistory' =
                      Append(conversationHistory,
                             ConversationMessage("assistant", "explanation",
                                                 FeedbackText(q)))
                 /\ Count(pending', "explanation") = Count(pending, "explanation")
                 /\ UNCHANGED <<currentQuestionNumber, currentQuestionText, hintsUsed>>
                 /\ q = currentQuestionText =>
                      /\ currentAttempts' = n
                      /\ IF n >= MaxAttempts
                         THEN /\ Len(timers') = Len(timers) + 1
                              /\ timers'[Len(timers')].kind = "advance"
                         ELSE timers' = timers]_vars
  /\ [][(last'.op = "TimerFire" /\ phase = "mounted" /\ Fired("advance")) =>
          Advances]_vars

\* the evaluation call resolved in this step
Resolved(i) ==
  /\ i \in 1..Len(pending)
  /\ pending[i].call = "evaluate"
  /\ \/ pending' = Remove(pending, i)
     \/ pending' = Append(Remove(pending, i),
                          Call("explanation", ExplanationClosure(pending[i].cl)))

\* an advance is on its way: its timer is armed, or the question it
\* requests is in flight
Advancing(tms, calls) ==
  \/ \E k \in 1..Len(tms) : tms[k].kind = "advance"
  \/ Count(calls, "question") > 0

\* C11: no question takes more than three evaluated answers: an evaluation
\* of an answer to the pending question that is strong requests the
\* explanation that leads to the advance, and once three answers to that
\* question have been evaluated not strong the advance is on its way
C11_AdvanceWithinThree ==
  [][Evaluated =>
       \A i \in 1..Len(pending) :
         (Resolved(i) /\ pending[i].cl.qtext = currentQuestionText) =>
            IF last'.quality = "strong"
            THEN Count(pending', "explanation") = Count(pending, "explanation") + 1
            ELSE Graded(conversationHistory', currentQuestionText) >= MaxAttempts =>
                   Advancing(timers', pending')]_vars

\* C12: the question number is at least 1; only the reset lowers it; any
\* other change is the delayed advance adding one, and the advance that
\* fires was armed by an answer to the question whose number is current (so
\* no question is advanced past twice)
C12_OncePerCycle ==
  /\ [](currentQuestionNumber >= 1)
  /\ [][currentQuestionNumber' # currentQuestionNumber =>
          \/ last'.op = "handleNewSession" /\ currentQuestionNumber' = 1
          \/ /\ last'.op = "TimerFire"
             /\ currentQuestionNumber' = currentQuestionNumber + 1
             /\ \A i \in 1..Len(timers) :
                  (timers' = Remove(timers, i) /\ timers[i].kind = "advance") =>
                     timers[i].cl.qn = currentQuestionNumber]_vars

\* a question is on screen, the input is enabled and no advance is armed
AwaitingAnswer ==
  /\ phase = "mounted"
  /\ currentQuestionText # EmptyText
  /\ ~isLoading
  /\ \A k \in 1..Len(timers) : timers[k].kind # "advance"

\* C13: while a question awaits an answer the attempts are 0, 1 or 2, and
\* they are 0 when a new question arrives
C13_AttemptsPerQuestion ==
  /\ [](AwaitingAnswer => currentAttempts \in 0..(MaxAttempts - 1))
  /\ [][(last'.op = "QuestionResolve" /\ phase = "mounted") =>
          currentAttempts' = 0]_vars

\* C14: the hint count is within 0..3; only the delayed advance and the
\* reset lower it; and it is 0 when a new question arrives
C14_HintsPerQuestion ==
  /\ [](hintsUsed \in 0..MaxHints)
  /\ [][hintsUsed' < hintsUsed =>
          \/ last'.op = "handleNewSession"
          \/ last'.op = "TimerFire" /\ Fired("advance")]_vars
  /\ [][(last'.op = "QuestionResolve" /\ phase = "mounted") =>
          hintsUsed' = 0]_vars

\* the hint call issued in this step
HintIssued == Count(pending', "hint") > Count(pending, "hint")

\* C15: with 3 hints used, or with no question on screen, no step issues a
\* hint call and a click on the hint button changes no count; and every
\* hint call issued asks for hint number hintsUsed + 1, one of 1, 2, 3, on
\* the question on screen
C15_HintGuard ==
  /\ [][(hintsUsed >= 3 \/ currentQuestionText = EmptyText) =>
          /\ ~HintIssued
          /\ last'.op = "handleGetHint" => UNCHANGED <<hintsUsed, pending>>]_vars
  /\ [][HintIssued =>
          /\ last'.op = "handleGetHint"
          /\ pending' = Append(pending, pending'[Len(pending')])
          /\ pending'[Len(pending')].cl.hints + 1 = hintsUsed + 1
          /\ pending'[Len(pending')].cl.hints + 1 \in 1..3
          /\ pending'[Len(pending')].cl.qtext = currentQuestionText
          /\ currentQuestionText # EmptyText]_vars

\* C15 witness: three hints have been delivered on the question on screen
\* and the input is enabled again
C15_Witness ==
  /\ phase = "mounted"
  /\ last.op = "HintResolve"
  /\ hintsUsed = 3
  /\ currentQuestionText # EmptyText
  /\ ~isLoading
  /\ pending = <<>>

\* C16: a hint request, whether it is being issued, succeeds or fails, never
\* changes the transcript, the attempt count, the quality window, the
\* difficulty, the question number or the current question text; issuing it
\* and its failure leave the hint count unchanged, and its success on the
\* mounted component adds exactly one to the hint count.
HintStep == last'.op \in {"handleGetHint", "HintResolve", "HintReject"}

C16_HintFrame ==
  [][HintStep =>
       /\ UNCHANGED <<conversationHistory, currentAttempts, recentQualities,
                      currentDifficulty, currentQuestionNumber,
                      currentQuestionText>>
       /\ last'.op \in {"handleGetHint", "HintReject"} => hintsUsed' = hintsUsed
       /\ (last'.op = "HintResolve" /\ phase = "mounted") =>
             hintsUsed' = hintsUsed + 1]_vars

C16_Witness ==
  /\ phase = "mounted"
  /\ last.op = "HintResolve"
  /\ hintsUsed = 1
  /\ currentAttempts = 1
  /\ currentQuestionText # EmptyText

\* C17: the focus topic sent with the request for question number n is
\* topics[min(floor((n-1)/3), length-1)]: whenever the mounted component
\* issues a question request, the topic the request carries is the topic of
\* the question number the session then shows.
QuestionIssued == Count(pending', "question") > Count(pending, "question")

RequestedTopic(call) == FocusTopic(call.cl.qn, topics)

C17_FocusTopic ==
  [][(QuestionIssued /\ phase = "mounted") =>
       RequestedTopic(pending'[Len(pending')]) =
         FocusTopic(currentQuestionNumber', topics)]_vars

\* C18: when the oracle call of a question request fails, the session state
\* is what it was before the request (transcript, current question text,
\* explored topics, counters, difficulty and window), and a retry that
\* re-issues the same request is available.  The failure step itself changes
\* none of these fields; while no question request has ever succeeded and
\* none is in flight, the explored topics are still the initial empty set;
\* after the failure the Retry button is shown and holds the request that
\* failed, and clicking it issues that request again.
QuestionRejected(i) ==
  /\ i \in 1..Len(pending)
  /\ pending[i].call = "question"
  /\ pending' = Remove(pending, i)

NoQuestionYet ==
  /\ phase = "mounted"
  /\ Count(pending, "question") = 0
  /\ \A k \in 1..Len(conversationHistory) :
        conversationHistory[k].type # "question"

C18_QuestionFailure ==
  /\ [][last'.op = "QuestionReject" =>
          UNCHANGED <<conversationHistory, currentQuestionText, exploredTopics,
                      currentQuestionNumber, currentAttempts, hintsUsed,
                      currentDifficulty, recentQualities>>]_vars
  /\ [](NoQuestionYet => exploredTopics = {})
  /\ [][(last'.op = "QuestionReject" /\ phase = "mounted") =>
          /\ error'
          /\ \A i \in 1..Len(pending) :
                QuestionRejected(i) =>
                   lastErrorAction' = [action |-> "question", cl |-> pending[i].cl]]_vars
  /\ [][(last'.op = "Retry" /\ lastErrorAction.action = "question") =>
          pending' = Append(pending, Call("question", lastErrorAction.cl))]_vars

\* C19: when the introduction call fails, the component stays where it was
\* before the introduction (nothing shown, no question), with an empty
\* transcript and every counter at its initial value, and shows a Retry that
\* issues the identical call again; once the introduction has succeeded,
\* after any number of failures, the transcript holds exactly one
\* introduction turn and it is the first turn.
IntroRejected(i) ==
  /\ i \in 1..Len(pending)
  /\ pending[i].call = "intro"
  /\ pending' = Remove(pending, i)

IsIntroTurn(m) ==
  m = ConversationMessage("assistant", "explanation", IntroText)

IntroTurns(history) ==
  Cardinality({k \in 1..Len(history) : IsIntroTurn(history[k])})

C19_IntroFailure ==
  /\ [][(last'.op = "IntroReject" /\ phase = "mounted") =>
          /\ ~hasShownIntro' /\ currentQuestionText' = EmptyText
          /\ conversationHistory' = <<>>
          /\ currentQuestionNumber' = 1 /\ currentAttempts' = 0
          /\ hintsUsed' = 0 /\ currentDifficulty' = 1
          /\ recentQualities' = <<>> /\ exploredTopics' = {}
          /\ error'
          /\ \A i \in 1..Len(pending) :
                IntroRejected(i) =>
                   lastErrorAction' = [action |-> "intro", cl |-> pending[i].cl]]_vars
  /\ [][(last'.op = "Retry" /\ lastErrorAction.action = "intro") =>
          /\ pending' = Append(pending, Call("intro", lastErrorAction.cl))
          /\ pending'[Len(pending')].cl.d = 1
          /\ conversationHistory' = <<>>]_vars
  /\ []((phase = "mounted" /\ hasShownIntro) =>
          /\ IntroTurns(conversationHistory) = 1
          /\ IsIntroTurn(conversationHistory[1]))
  /\ []((phase = "mounted" /\ ~hasShownIntro) => conversationHistory = <<>>)

\* C19 witness: the first introduction call has failed and the Retry has
\* issued the call again, which is in flight
C19_Witness ==
  /\ phase = "mounted"
  /\ last.op = "Retry"
  /\ Len(pending) = 1 /\ pending[1].call = "intro"
  /\ conversationHistory = <<>>
  /\ ~hasShownIntro
  /\ ~error

\* C20: a submission is atomic with respect to the oracle's responses: when
\* the answer is evaluated strong and the explanation call that follows
\* fails, the quality window and the difficulty are as they were before the
\* submission.  Stated on the first submission of a session, before which
\* the window is empty and the difficulty is 1: when the explanation call
\* has just failed and the transcript holds a single answer turn and no
\* evaluation turn, the window is still empty and the difficulty still 1.
IsAnswerTurn(m) == m.role = "user"

OnlySubmissionFailed ==
  /\ phase = "mounted"
  /\ last.op = "ExplanationReject"
  /\ pending = <<>>
  /\ Len(SelectSeq(conversationHistory, IsAnswerTurn)) = 1
  /\ \A k \in 1..Len(conversationHistory) :
        \/ IsAnswerTurn(conversationHistory[k])
        \/ IsIntroTurn(conversationHistory[k])
        \/ IsQuestion(conversationHistory[k])

C20_SubmitAtomic ==
  OnlySubmissionFailed => (recentQualities = <<>> /\ currentDifficulty = 1)

\* C21: at most one oracle call of the session is in flight at any time: the
\* evaluation and explanation of a submission, a hint request and a question
\* request (the one after the introduction and the one of the delayed
\* advance included) never overlap.
C21_OneCallInFlight == Len(pending) <= 1

\* C22: a reset, from any reachable state, sets every field of the session
\* to its initial value (difficulty 1, question number 1, attempts 0, hints
\* 0, empty window, empty explored topics, empty transcript, empty current
\* question text); it has no failure path, and since its result does not
\* depend on the state it starts from, applying it to its own result gives
\* the same state.
InitialSession == <<EmptyText, 1, 0, 0, <<>>, 1, <<>>, {}>>

C22_ResetSession ==
  /\ [](last.op = "init" => session = InitialSession)
  /\ [][last'.op = "handleNewSession" =>
          /\ session' = InitialSession
          /\ ~error'
          /\ UNCHANGED pending]_vars

\* C22 witness: the reset was clicked during the delay after a completed
\* cycle of a session that had marked a topic explored
C22_Witness ==
  /\ last.op = "handleNewSession"
  /\ phase = "unmounted"
  /\ session = InitialSession
  /\ \E k \in 1..Len(timers) :
        timers[k].kind = "advance" /\ Len(timers[k].cl.hist) >= 3

\* C23: the score equals clamp[0,100](correctness - min(2 * hints, 20) +
\* time bonus) rounded to one decimal, where correctness is 60 * correct /
\* questions (0 for no questions) and the time bonus is 10 without time data,
\* else 20 / 10 / 15 / 5 for the average minutes per question in [2,5] /
\* below 2 / in (5,10] / above 10; (8,2,25,10) gives 64.0 and
\* (0,0,absent,0) gives 10.0.  The average is not defined for no questions
\* with time data, which the formula leaves out, as it leaves out negative
\* counts.
\* the bonus the claim gives, with the average a / q compared as a fraction
ClaimedBonus(hasTime, a, q) ==
  IF ~hasTime THEN 10
  ELSE IF 2 * q <= a /\ a <= 5 * q THEN 20
  ELSE IF a < 2 * q THEN 10
  ELSE IF 5 * q < a /\ a <= 10 * q THEN 15
  ELSE 5

\* r tenths is x = n / d rounded to one decimal after the clamp to [0,100],
\* d > 0: r is the integer nearest to 10 * clamp(x)
IsClampedRounding(r, n, d) ==
  IF n <= 0 THEN r = 0
  ELSE IF n >= 100 * d THEN r = 1000
  ELSE 20 * n - d < 2 * d * r /\ 2 * d * r <= 20 * n + d

ScoreAsClaimed(a, r) ==
  LET q == a.totalQuestions
      bonus == ClaimedBonus(a.hasTime, a.timeSpentMinutes, q)
      rest == bonus - Min(2 * a.hintsUsed, 20)
  IN  IF q = 0 THEN IsClampedRounding(r, rest, 1)
      ELSE IsClampedRounding(r, 60 * a.correctAnswers + rest * q, q)

CountsGiven(a) ==
  /\ a.correctAnswers >= 0 /\ a.hintsUsed >= 0 /\ a.totalQuestions >= 0
  /\ ~(a.totalQuestions = 0 /\ a.hasTime)

C23_ThinkingScore ==
  /\ (thinkingScore.done /\ CountsGiven(scoreArgs)) =>
        ScoreAsClaimed(scoreArgs, thinkingScore.value)
  /\ (thinkingScore.done
      /\ scoreArgs = [correctAnswers |-> 8, hintsUsed |-> 2, hasTime |-> TRUE,
                      timeSpentMinutes |-> 25, totalQuestions |-> 10]) =>
        thinkingScore.value = 640
  /\ (thinkingScore.done /\ scoreArgs = NoArgs) => thinkingScore.value = 100

\* C23 witness: 8 of 10 correct with 11 hints in 25 minutes: the penalty is
\* capped at 20 and the score is 48.0
C23_Witness ==
  /\ thinkingScore.done
  /\ scoreArgs = [correctAnswers |-> 8, hintsUsed |-> 11, hasTime |-> TRUE,
                  timeSpentMinutes |-> 25, totalQuestions |-> 10]
  /\ thinkingScore.value = 480

\* C24: for all integer arguments (more correct answers than questions, no
\* questions, very many hints, zero or negative minutes included) the score
\* is within [0,100] and no division by zero is evaluated.
C24_ScoreInRange ==
  thinkingScore.done =>
     /\ thinkingScore.value \in 0..1000
     /\ 0 \notin thinkingScore.divisors

\* C24 witness: no questions, 8 correct answers, 1000 hints and a negative
\* time: the raw value 10 - 20 is clamped to 0 and nothing was divided
C24_Witness ==
  /\ thinkingScore.done
  /\ scoreArgs = [correctAnswers |-> 8, hintsUsed |-> ManyHints, hasTime |-> TRUE,
                  timeSpentMinutes |-> -1, totalQuestions |-> 0]
  /\ thinkingScore.value = 0
  /\ thinkingScore.divisors = {}

\* the sessions a response is about: the user's, or those of the PDF asked for
Scope(rows, st) ==
  IF st.handler = "getPDFProgress" THEN OfPdf(rows, st.pdfId) ELSE rows

HasProgress(row) == row.hasProgress

AskedSomething(row) == row.hasProgress /\ row.questionsAsked >= 1

RECURSIVE SumScores(_)
SumScores(rows) ==
  IF rows = <<>> THEN 0 ELSE SessionScore(Head(rows)) + SumScores(Tail(rows))

RECURSIVE SumField(_, _)
SumField(rows, field) ==
  IF rows = <<>> THEN 0 ELSE Head(rows)[field] + SumField(Tail(rows), field)

\* r is n / d rounded to the nearest integer, a half going up (d > 0)
IsRounding(r, n, d) == 2 * n - d < 2 * d * r /\ 2 * d * r <= 2 * n + d

\* C25 as stated: the average thinking score of a response is the arithmetic
\* mean of the scores of exactly the sessions with at least one question
\* asked (0 without any), the overall accuracy is 100 * (sum of correct
\* answers) / (sum of questions asked) over the sessions with a progress
\* record (0 when no question was asked), and computing the statistics
\* changes no persisted record.  Figures are in tenths.
C25_ExactMeans ==
  /\ [](stats.done =>
          LET rows == Scope(sessionsWithProgress, stats)
              scored == SelectSeq(rows, AskedSomething)
              asked == SumField(SelectSeq(rows, HasProgress), "questionsAsked")
              correct == SumField(SelectSeq(rows, HasProgress), "correctAnswers")
          IN  /\ IF Len(scored) = 0 THEN stats.averageThinkingScore = 0
                 ELSE stats.averageThinkingScore * Len(scored) = SumScores(scored)
              /\ IF asked = 0 THEN stats.overallAccuracy = 0
                 ELSE stats.overallAccuracy * asked = 1000 * correct)
  /\ [][sessionsWithProgress' = sessionsWithProgress]_vars

\* C25 amended: the same, with both figures rounded to one decimal
C25_RoundedMeans ==
  /\ [](stats.done =>
          LET rows == Scope(sessionsWithProgress, stats)
              scored == SelectSeq(rows, AskedSomething)
              asked == SumField(SelectSeq(rows, HasProgress), "questionsAsked")
              correct == SumField(SelectSeq(rows, HasProgress), "correctAnswers")
          IN  /\ IF Len(scored) = 0 THEN stats.averageThinkingScore = 0
                 ELSE IsRounding(stats.averageThinkingScore, SumScores(scored), Len(scored))
              /\ IF asked = 0 THEN stats.overallAccuracy = 0
                 ELSE IsRounding(stats.overallAccuracy, 1000 * correct, asked))
  /\ [][sessionsWithProgress' = sessionsWithProgress]_vars

\* C25 witness: the user's statistics over a session without progress, a
\* session with progress and no question, and a session with 1 of 3 correct:
\* mean score 40.0 over the one scoring session, accuracy 2 of 3 = 66.7
C25_Witness ==
  /\ stats.done /\ stats.handler = "getOverallStats"
  /\ sessionsWithProgress =
       << [pdfId |-> 1, hasProgress |-> FALSE, questionsAsked |-> 0,
           correctAnswers |-> 0, hintsUsed |-> 0, minutes |-> 7],
          [pdfId |-> 1, hasProgress |-> TRUE, questionsAsked |-> 0,
           correctAnswers |-> 1, hintsUsed |-> 0, minutes |-> 7],
          [pdfId |-> 2, hasProgress |-> TRUE, questionsAsked |-> 3,
           correctAnswers |-> 1, hintsUsed |-> 0, minutes |-> 7] >>
  /\ stats.averageThinkingScore = 400
  /\ stats.overallAccuracy = 667

\* C26: every question request sent to the oracle carries the session's
\* values as of the moment of the request: the current difficulty (an
\* escalation or de-escalation of the turn just completed included) and the
\* complete transcript so far (the introduction and the latest answer and
\* explanation or feedback turns included).
C26_RequestIsCurrent ==
  [][(QuestionIssued /\ phase = "mounted") =>
       /\ pending'[Len(pending')].cl.d = currentDifficulty'
       /\ pending'[Len(pending')].cl.hist = conversationHistory']_vars

\* C27: after a reset no callback scheduled before it (the delayed advance
\* after a strong answer or after the third failed attempt, the delayed
\* first question) changes the session state or issues an oracle call: the
\* state stays at its initial values.
C27_NoCallbackAfterReset ==
  [][(phase = "unmounted" /\ last'.op = "TimerFire") =>
       /\ session' = InitialSession
       /\ pending' = pending]_vars

\* C28: the transcript is append-only between resets: every step but the
\* reset leaves the previous transcript as a prefix of the new one; and the
\* explored topics only grow, and contain the focus topic of every question
\* request: no step but the reset removes a topic, and each request issued
\* has the topic it carries in the set.
IsPrefix(a, b) == Len(a) <= Len(b) /\ SubSeq(b, 1, Len(a)) = a

C28_AppendOnly ==
  /\ [][last'.op # "handleNewSession" =>
          /\ IsPrefix(conversationHistory, conversationHistory')
          /\ exploredTopics \subseteq exploredTopics']_vars
  /\ [][(QuestionIssued /\ phase = "mounted" /\ Len(topics) > 0) =>
          RequestedTopic(pending'[Len(pending')]) \in exploredTopics']_vars

\* C28 witness: the advance after a completed cycle has just requested the
\* next question, and its topic is in the set
C28_Witness ==
  /\ phase = "mounted"
  /\ last.op = "TimerFire"
  /\ Len(conversationHistory) >= 4
  /\ Len(pending) = 1 /\ pending[1].call = "question"
  /\ topics = <<"A", "B">>
  /\ exploredTopics = {RequestedTopic(pending[1])}

\* C29: between two consecutive difficulty adjustments of a session there are
\* at least 3 successfully evaluated answers.  Step by step: difficulty
\* changes (the reset aside) only in the continuation of an evaluation that
\* completes a window of three, and the window is empty afterwards; the
\* window grows only by one label, in the continuation of an evaluation.
\* And the examples: when every answer so far was evaluated strong and
\* explained, starting at difficulty 1 with an empty window, four of them
\* have raised the difficulty exactly once (to 2) and six exactly twice.
StrongTurns(history) ==
  Len(SelectSeq(history, IsExplanationTurn)) - IntroTurns(history)

\* every evaluation of the session so far was strong and is settled
OnlyStrongSoFar ==
  /\ phase = "mounted"
  /\ pending = <<>>
  /\ \A k \in 1..Len(conversationHistory) :
        conversationHistory[k].type = "explanation" =>
           conversationHistory[k].content \in {IntroText, ExplanationText}
  /\ Len(SelectSeq(conversationHistory, IsAnswerTurn)) = StrongTurns(conversationHistory)

C29_ThreeBetweenAdjustments ==
  /\ [][(currentDifficulty' # currentDifficulty /\ last'.op # "handleNewSession") =>
          /\ last'.op = "EvaluateResolve"
          /\ Len(WindowMade(last'.quality)) = WindowSize
          /\ recentQualities' = <<>>]_vars
  /\ [][Len(recentQualities') > Len(recentQualities) =>
          /\ last'.op = "EvaluateResolve"
          /\ Len(recentQualities') = Len(recentQualities) + 1]_vars
  /\ []((OnlyStrongSoFar /\ StrongTurns(conversationHistory) \in {3, 4, 5}) =>
           currentDifficulty = 2)
  /\ []((OnlyStrongSoFar /\ StrongTurns(conversationHistory) \in {6, 7, 8}) =>
           currentDifficulty = 3)

\* C30: in every reachable state the current question text is either empty
\* (no question generated yet, or after a reset) or equal to the content of
\* the most recent question turn of the transcript; and every answer turn of
\* the transcript is preceded by at least one question turn.
QuestionTurns(history) == SelectSeq(history, IsQuestion)

C30_QuestionOnScreen ==
  /\ currentQuestionText # EmptyText =>
        /\ QuestionTurns(conversationHistory) # <<>>
        /\ currentQuestionText =
             QuestionTurns(conversationHistory)[Len(QuestionTurns(conversationHistory))].content
  /\ \A k \in 1..Len(conversationHistory) :
        IsAnswerTurn(conversationHistory[k]) =>
           \E j \in 1..(k - 1) : IsQuestion(conversationHistory[j])

\* C30 witness: the second question is on screen, after an answered first
C30_Witness ==
  /\ phase = "mounted"
  /\ currentQuestionText = <<"question", 2>>
  /\ Len(QuestionTurns(conversationHistory)) = 2
  /\ \E k \in 1..Len(conversationHistory) : IsAnswerTurn(conversationHistory[k])
  /\ conversationHistory[Len(conversationHistory)].content = currentQuestionText

====
